---- MODULE Spec2Model ----
(***************************************************************************)
(* Model of the double-ended priority queue DoubleHeap<T> of src/depq.rs   *)
(* (two mirrored binary heaps) and of the single binary heap of src/pq.rs  *)
(* that DoubleHeap's equality is computed with.                            *)
(*                                                                         *)
(* A Rust Vec is a TLA+ sequence; the Rust index i is position i + 1 of    *)
(* the sequence (see At).  A slot (T, usize) is the pair <<value, mirror>>,*)
(* the mirror being kept as the 0-based Rust index.  Option<T> is the      *)
(* sequence <<>> (None) or <<x>> (Some(x)).                                *)
(***************************************************************************)
EXTENDS Integers, Sequences, FiniteSets

VARIABLES min_array, max_array, op, arg, result, bag, h3, dels, twin, drain, sift,
          probe, uf, pq, srt, coin, bst

vars == <<min_array, max_array, op, arg, result, bag, h3, dels, twin, drain, sift,
          probe, uf, pq, srt, coin, bst>>

\* Largest element value of the model; elements are 0 .. MaxVal (two values
\* already give duplicates, strict order and the sift-up case of del_aux).
MaxVal == 1

\* Largest number of elements the queue is grown to.
MaxLen == 6

\* The longest queue of the run that compares make_heap with ins_all.
BuildLen == 5

\* The largest amount to make change for; coins run up to MaxAmount + 1.
MaxAmount == 7

\* The longest queue of the two that are compared.
EqLen == 3

\* The largest key of the map.
MaxKey == 2

\* The largest union-find structure; indices passed to it run up to MaxN,
\* which is out of range for every structure.
MaxN == 4

Vals == 0 .. MaxVal

None == <<>>

Some(x) == <<x>>

\* l[i] of the source, i a 0-based index.
At(l, i) == l[i + 1]

\* Vec::pop: the vector without its last element.
Pop(l) == SubSeq(l, 1, Len(l) - 1)

\* A swap written without a temporary: l[i] = l[j] only.
VecSwap_no_temp(l, i, j) ==
    [l EXCEPT ![i + 1] = At(l, j)]

\* Vec::swap(i, j).
VecSwap(l, i, j) ==
    [l EXCEPT ![i + 1] = At(l, j), ![j + 1] = At(l, i)]

\* r[k].1 = j
SetMirror(r, k, j) == [r EXCEPT ![k + 1] = <<At(r, k)[1], j>>]

lt(a, b) == a < b

gt(a, b) == a > b

\* Call of a comparison passed as fn(&T, &T) -> bool.
Call(cmp, a, b) == IF cmp = "lt" THEN lt(a, b) ELSE gt(a, b)

\* The values of an array of slots: into_iter().map(|x| x.0).collect().
Values(l) == [k \in DOMAIN l |-> l[k][1]]

(***************************************************************************)
(* pq.rs: the single binary heap, heapsort.                                *)
(***************************************************************************)
RECURSIVE Heap_fix_heap_property_bottom_up(_, _)
Heap_fix_heap_property_bottom_up(array, current) ==
    IF current = 0 THEN array
    ELSE LET parent == (current - 1) \div 2 IN
         IF At(array, current) < At(array, parent)
         THEN Heap_fix_heap_property_bottom_up(VecSwap(array, current, parent), parent)
         ELSE array

RECURSIVE Heap_fix_heap_property_top_down(_, _)
Heap_fix_heap_property_top_down(array, current) ==
    LET left == 2 * current + 1
        right == 2 * current + 2
    IN  IF Len(array) > right
        THEN LET son == IF At(array, left) < At(array, right) THEN left ELSE right IN
             IF At(array, current) > At(array, son)
             THEN Heap_fix_heap_property_top_down(VecSwap(array, current, son), son)
             ELSE array
        ELSE IF Len(array) > left
        THEN IF At(array, current) > At(array, left)
             THEN Heap_fix_heap_property_top_down(VecSwap(array, current, left), left)
             ELSE array
        ELSE array

\* insert that pushes and does not sift.
Heap_insert_no_sift(array, elem) == Append(array, elem)

Heap_insert(array, elem) ==
    LET pushed == Append(array, elem)
        l == Len(pushed) - 1
    IN  Heap_fix_heap_property_bottom_up(pushed, l)

\* del_min of the heap without the top-down sift of the new root.
Heap_del_min_no_sift(array) ==
    IF Len(array) = 0
    THEN [array |-> array, result |-> None]
    ELSE LET last_index == Len(array) - 1
             swapped == VecSwap(array, 0, last_index)
         IN  [array |-> Pop(swapped), result |-> Some(At(swapped, last_index))]

Heap_del_min(array) ==
    IF Len(array) = 0
    THEN [array |-> array, result |-> None]
    ELSE LET last_index == Len(array) - 1
             swapped == VecSwap(array, 0, last_index)
         IN  [array |-> Heap_fix_heap_property_top_down(Pop(swapped), 0),
              result |-> Some(At(swapped, last_index))]

\* Iterator::collect on a heap: next is del_min, until it returns None.
RECURSIVE Heap_collect(_)
Heap_collect(array) ==
    LET d == Heap_del_min(array) IN
    IF d.result = None THEN <<>>
    ELSE <<d.result[1]>> \o Heap_collect(d.array)

RECURSIVE Heap_insert_all(_, _)
Heap_insert_all(array, v) ==
    IF v = <<>> THEN array
    ELSE Heap_insert_all(Heap_insert(array, Head(v)), Tail(v))

sort2(v) == Heap_collect(Heap_insert_all(<<>>, v))

Heap_min(array) == IF Len(array) = 0 THEN None ELSE Some(At(array, 0))

\* for i in 0 .. h.size(), from i on.
RECURSIVE Heap_make_heap_bottom_up_loop(_, _)
Heap_make_heap_bottom_up_loop(array, i) ==
    IF i >= Len(array) THEN array
    ELSE Heap_make_heap_bottom_up_loop(Heap_fix_heap_property_bottom_up(array, i), i + 1)

Heap_make_heap_bottom_up(v) == Heap_make_heap_bottom_up_loop(v, 0)

\* The loop of make_heap_top_down that stops before the root.
RECURSIVE Heap_make_heap_top_down_loop_skip_root(_, _)
Heap_make_heap_top_down_loop_skip_root(array, n) ==
    IF n <= 1 THEN array
    ELSE Heap_make_heap_top_down_loop_skip_root(
             Heap_fix_heap_property_top_down(array, n - 1), n - 1)

\* for i in (0 .. (h.size() - 1)).rev(): n indices are still to be sifted.
RECURSIVE Heap_make_heap_top_down_loop(_, _)
Heap_make_heap_top_down_loop(array, n) ==
    IF n = 0 THEN array
    ELSE Heap_make_heap_top_down_loop(Heap_fix_heap_property_top_down(array, n - 1), n - 1)

Heap_make_heap_top_down(v) ==
    IF Len(v) = 0 THEN <<>>
    ELSE Heap_make_heap_top_down_loop(v, Len(v) - 1)

\* The first loop of sort: v.pop() into h.insert until v is empty.
RECURSIVE Heap_sort_fill(_, _)
Heap_sort_fill(array, v) ==
    IF v = <<>> THEN array
    ELSE Heap_sort_fill(Heap_insert(array, v[Len(v)]), Pop(v))

\* The second loop of sort: h.del_min() into v.push until the heap is empty.
RECURSIVE Heap_sort_drain(_, _)
Heap_sort_drain(array, v) ==
    LET d == Heap_del_min(array) IN
    IF d.result = None THEN v
    ELSE Heap_sort_drain(d.array, Append(v, d.result[1]))

\* What sort(&mut v) leaves in v.
Heap_sort(v) == Heap_sort_drain(Heap_sort_fill(<<>>, v), <<>>)

\* The loop of is_heap_aux that looks at the left child only.
RECURSIVE is_heap_aux_loop_left_only(_, _, _, _)
is_heap_aux_loop_left_only(v, cmp, i, last) ==
    IF i >= last THEN TRUE
    ELSE LET l == 2 * i + 1 IN
         IF l <= last /\ Call(cmp, At(v, i), At(v, l)) THEN FALSE
         ELSE is_heap_aux_loop_left_only(v, cmp, i + 1, last)

\* for i in 0 .. last, from i on; FALSE is the early return false.
RECURSIVE is_heap_aux_loop(_, _, _, _)
is_heap_aux_loop(v, cmp, i, last) ==
    IF i >= last THEN TRUE
    ELSE LET l == 2 * i + 1
             r == 2 * i + 2
         IN  IF r <= last
             THEN IF Call(cmp, At(v, i), At(v, l)) \/ Call(cmp, At(v, i), At(v, r))
                  THEN FALSE
                  ELSE is_heap_aux_loop(v, cmp, i + 1, last)
             ELSE IF l <= last
             THEN IF Call(cmp, At(v, i), At(v, l))
                  THEN FALSE
                  ELSE is_heap_aux_loop(v, cmp, i + 1, last)
             ELSE is_heap_aux_loop(v, cmp, i + 1, last)

is_heap_aux(v, cmp) ==
    IF Len(v) > 0 THEN is_heap_aux_loop(v, cmp, 0, Len(v) - 1) ELSE TRUE

Heap_is_heap(v) == is_heap_aux(v, "gt")

(***************************************************************************)
(* union_by_size.rs and union_by_rank.rs: UnionFind.  A structure is the   *)
(* record of its two vectors; find and union, which take &mut self, give   *)
(* the structure they leave behind (and find its return value).            *)
(***************************************************************************)
VecSet(v, i, x) == [v EXCEPT ![i + 1] = x]

BySize_new(n) ==
    [parents |-> [k \in 1 .. n |-> k - 1], sizes |-> [k \in 1 .. n |-> 1]]

BySize_size(self) == Len(self.parents)

RECURSIVE BySize_find_loop(_, _)
BySize_find_loop(parents, i) ==
    IF At(parents, i) = At(parents, At(parents, i))
    THEN [parents |-> parents, ret |-> Some(At(parents, i))]
    ELSE BySize_find_loop(VecSet(parents, i, At(parents, At(parents, i))), i)

\* find that takes the last index for out of range.
BySize_find_off_by_one(self, i) ==
    IF i + 1 >= BySize_size(self)
    THEN [self |-> self, ret |-> None]
    ELSE LET f == BySize_find_loop(self.parents, i) IN
         [self |-> [self EXCEPT !.parents = f.parents], ret |-> f.ret]

BySize_find(self, i) ==
    IF i >= BySize_size(self)
    THEN [self |-> self, ret |-> None]
    ELSE LET f == BySize_find_loop(self.parents, i) IN
         [self |-> [self EXCEPT !.parents = f.parents], ret |-> f.ret]

\* union that leaves the size of the absorbed root as it was.
BySize_union_keeps_size(self, i, j) ==
    LET fi == BySize_find(self, i)
        fj == BySize_find(fi.self, j)
        s == fj.self
    IN  IF fi.ret # None /\ fj.ret # None /\ fi.ret # fj.ret
        THEN LET pi == fi.ret[1]
                 pj == fj.ret[1]
             IN  IF At(s.sizes, pi) <= At(s.sizes, pj)
                 THEN [parents |-> VecSet(s.parents, pi, pj),
                       sizes |-> VecSet(s.sizes, pj, At(s.sizes, pj) + At(s.sizes, pi))]
                 ELSE [parents |-> VecSet(s.parents, pj, pi),
                       sizes |-> VecSet(s.sizes, pi, At(s.sizes, pi) + At(s.sizes, pj))]
        ELSE s

\* union that hangs i itself, not its representative, under the other set.
BySize_union_links_i(self, i, j) ==
    LET fi == BySize_find(self, i)
        fj == BySize_find(fi.self, j)
        s == fj.self
    IN  IF fi.ret # None /\ fj.ret # None /\ fi.ret # fj.ret
        THEN LET pi == fi.ret[1]
                 pj == fj.ret[1]
             IN  IF At(s.sizes, pi) <= At(s.sizes, pj)
                 THEN [parents |-> VecSet(s.parents, i, pj),
                       sizes |-> VecSet(VecSet(s.sizes, pj, At(s.sizes, pj) + At(s.sizes, pi)),
                                        pi, 0)]
                 ELSE [parents |-> VecSet(s.parents, j, pi),
                       sizes |-> VecSet(VecSet(s.sizes, pi, At(s.sizes, pi) + At(s.sizes, pj)),
                                        pj, 0)]
        ELSE s

\* match (self.find(i), self.find(j)): both are called, i first.
BySize_union(self, i, j) ==
    LET fi == BySize_find(self, i)
        fj == BySize_find(fi.self, j)
        s == fj.self
    IN  IF fi.ret # None /\ fj.ret # None /\ fi.ret # fj.ret
        THEN LET pi == fi.ret[1]
                 pj == fj.ret[1]
             IN  IF At(s.sizes, pi) <= At(s.sizes, pj)
                 THEN [parents |-> VecSet(s.parents, pi, pj),
                       sizes |-> VecSet(VecSet(s.sizes, pj, At(s.sizes, pj) + At(s.sizes, pi)),
                                        pi, 0)]
                 ELSE [parents |-> VecSet(s.parents, pj, pi),
                       sizes |-> VecSet(VecSet(s.sizes, pi, At(s.sizes, pi) + At(s.sizes, pj)),
                                        pj, 0)]
        ELSE s

ByRank_new(n) ==
    [parents |-> [k \in 1 .. n |-> k - 1], ranks |-> [k \in 1 .. n |-> 0]]

ByRank_size(self) == Len(self.parents)

RECURSIVE ByRank_find_loop(_, _)
ByRank_find_loop(parents, i) ==
    IF At(parents, i) = At(parents, At(parents, i))
    THEN [parents |-> parents, ret |-> Some(At(parents, i))]
    ELSE ByRank_find_loop(VecSet(parents, i, At(parents, At(parents, i))), i)

ByRank_find(self, i) ==
    IF i >= ByRank_size(self)
    THEN [self |-> self, ret |-> None]
    ELSE LET f == ByRank_find_loop(self.parents, i) IN
         [self |-> [self EXCEPT !.parents = f.parents], ret |-> f.ret]

ByRank_union(self, i, j) ==
    LET fi == ByRank_find(self, i)
        fj == ByRank_find(fi.self, j)
        s == fj.self
    IN  IF fi.ret # None /\ fj.ret # None /\ fi.ret # fj.ret
        THEN LET pi == fi.ret[1]
                 pj == fj.ret[1]
             IN  IF At(s.ranks, pi) < At(s.ranks, pj)
                 THEN [s EXCEPT !.parents = VecSet(s.parents, pi, pj)]
                 ELSE [parents |-> VecSet(s.parents, pj, pi),
                       ranks |-> IF At(s.ranks, pi) = At(s.ranks, pj)
                                 THEN VecSet(s.ranks, pi, At(s.ranks, pi) + 1)
                                 ELSE s.ranks]
        ELSE s

(***************************************************************************)
(* coin_change.rs: make_change_count.  dp is the vector of Option<usize>.  *)
(***************************************************************************)
\* The loop over j that overwrites dp[i] with every candidate.
RECURSIVE make_change_count_inner_last_wins(_, _, _, _)
make_change_count_inner_last_wins(coins, dp, i, j) ==
    IF j >= i THEN dp
    ELSE IF At(dp, j) # None /\ (i - j) \in coins
    THEN make_change_count_inner_last_wins(coins, VecSet(dp, i, Some(At(dp, j)[1] + 1)),
                                           i, j + 1)
    ELSE make_change_count_inner_last_wins(coins, dp, i, j + 1)

\* for j in 0 .. i, from j on.
RECURSIVE make_change_count_inner(_, _, _, _)
make_change_count_inner(coins, dp, i, j) ==
    IF j >= i THEN dp
    ELSE IF At(dp, j) # None /\ (i - j) \in coins
    THEN LET vj == At(dp, j)[1] IN
         IF At(dp, i) # None
         THEN IF vj + 1 < At(dp, i)[1]
              THEN make_change_count_inner(coins, VecSet(dp, i, Some(vj + 1)), i, j + 1)
              ELSE make_change_count_inner(coins, dp, i, j + 1)
         ELSE make_change_count_inner(coins, VecSet(dp, i, Some(vj + 1)), i, j + 1)
    ELSE make_change_count_inner(coins, dp, i, j + 1)

\* for i in 1 .. (amount + 2), from i on.
RECURSIVE make_change_count_outer(_, _, _, _)
make_change_count_outer(coins, amount, dp, i) ==
    IF i >= amount + 2 THEN dp
    ELSE IF i \in coins
    THEN make_change_count_outer(coins, amount, Append(dp, Some(1)), i + 1)
    ELSE make_change_count_outer(coins, amount,
             make_change_count_inner(coins, Append(dp, None), i, 0), i + 1)

make_change_count(coins, amount) ==
    At(make_change_count_outer(coins, amount, <<Some(0)>>, 1), amount)

(***************************************************************************)
(* map/bst.rs: Tree.  E is the empty tuple, N(k, v, l, r) the tuple of its *)
(* four fields.                                                            *)
(***************************************************************************)
E == <<>>

N(k, v, l, r) == <<k, v, l, r>>

Tree_new == E

RECURSIVE Tree_size(_)
Tree_size(self) ==
    IF self = E THEN 0 ELSE 1 + Tree_size(self[3]) + Tree_size(self[4])

RECURSIVE Tree_find(_, _)
Tree_find(self, key) ==
    IF self = E THEN None
    ELSE IF key < self[1] THEN Tree_find(self[3], key)
    ELSE IF key = self[1] THEN Some(self[2])
    ELSE Tree_find(self[4], key)

RECURSIVE Tree_ins(_, _, _)
Tree_ins(self, key, value) ==
    IF self = E THEN N(key, value, E, E)
    ELSE IF key < self[1] THEN N(self[1], self[2], Tree_ins(self[3], key, value), self[4])
    ELSE IF key = self[1] THEN N(self[1], value, self[3], self[4])
    ELSE N(self[1], self[2], self[3], Tree_ins(self[4], key, value))

\* del returns None and leaves the tree as it is.
Tree_del(self, key) == [self |-> self, ret |-> None]

(***************************************************************************)
(* depq.rs: DoubleHeap.                                                    *)
(***************************************************************************)
new == [min_array |-> <<>>, max_array |-> <<>>]

\* A swap in l that exchanges the counterparts in r as well.
swap_moves_counterparts(l, r, i, j) ==
    LET r1 == SetMirror(r, At(l, i)[2], j)
        r2 == SetMirror(r1, At(l, j)[2], i)
    IN  <<VecSwap(l, i, j), VecSwap(r2, At(l, i)[2], At(l, j)[2])>>

\* swap without its second assignment, r[l[j].1].1 = i.
swap_one_mirror(l, r, i, j) ==
    <<VecSwap(l, i, j), SetMirror(r, At(l, i)[2], j)>>

\* Swap two slots of l, keeping the mirrors of r; the result is <<l, r>>.
swap(l, r, i, j) ==
    LET r1 == SetMirror(r, At(l, i)[2], j)
        r2 == SetMirror(r1, At(l, j)[2], i)
    IN  <<VecSwap(l, i, j), r2>>

RECURSIVE fix_heap_property_bottom_up_aux(_, _, _, _)
fix_heap_property_bottom_up_aux(l, r, current, cmp) ==
    IF current = 0 THEN <<l, r>>
    ELSE LET parent == (current - 1) \div 2 IN
         IF Call(cmp, At(l, current)[1], At(l, parent)[1])
         THEN LET s == swap(l, r, current, parent) IN
              fix_heap_property_bottom_up_aux(s[1], s[2], parent, cmp)
         ELSE <<l, r>>

\* fix_heap_property_bottom_up that sifts in the min-heap only.
fix_heap_property_bottom_up_min_only(self, min_i, max_i) ==
    LET a == fix_heap_property_bottom_up_aux(self.min_array, self.max_array, min_i, "lt")
    IN  [min_array |-> a[1], max_array |-> a[2]]

\* Both heaps; the result is <<min_array, max_array>>.
fix_heap_property_bottom_up(self, min_i, max_i) ==
    LET a == fix_heap_property_bottom_up_aux(self.min_array, self.max_array, min_i, "lt")
        b == fix_heap_property_bottom_up_aux(a[2], a[1], max_i, "gt")
    IN  [min_array |-> b[2], max_array |-> b[1]]

RECURSIVE fix_heap_property_top_down_aux(_, _, _, _, _)
fix_heap_property_top_down_aux(l, r, current, flt, fgt) ==
    LET left == 2 * current + 1
        right == 2 * current + 2
    IN  IF Len(l) > right
        THEN LET child == IF Call(flt, At(l, left)[1], At(l, right)[1])
                          THEN left ELSE right
             IN  IF Call(fgt, At(l, current)[1], At(l, child)[1])
                 THEN LET s == swap(l, r, current, child) IN
                      fix_heap_property_top_down_aux(s[1], s[2], child, flt, fgt)
                 ELSE <<l, r>>
        ELSE IF Len(l) > left
        THEN IF Call(fgt, At(l, current)[1], At(l, left)[1])
             THEN LET s == swap(l, r, current, left) IN
                  fix_heap_property_top_down_aux(s[1], s[2], left, flt, fgt)
             ELSE <<l, r>>
        ELSE <<l, r>>

\* One iteration of the bottom-up loop that is left at once, without a swap.
bottom_up_iteration_no_swap(l, r, current, cmp) ==
    [l |-> l, r |-> r, current |-> current, exit |-> TRUE]

\* One iteration of the loop of fix_heap_property_bottom_up_aux that swaps
\* and leaves current where it was.
bottom_up_iteration_no_move(l, r, current, cmp) ==
    IF current = 0
    THEN [l |-> l, r |-> r, current |-> current, exit |-> TRUE]
    ELSE LET parent == (current - 1) \div 2 IN
         IF Call(cmp, At(l, current)[1], At(l, parent)[1])
         THEN LET s == swap(l, r, current, parent) IN
              [l |-> s[1], r |-> s[2], current |-> current, exit |-> FALSE]
         ELSE [l |-> l, r |-> r, current |-> current, exit |-> TRUE]

\* One iteration of the loop of fix_heap_property_bottom_up_aux: the test
\* current != 0 and the body; exit tells that the loop is left.
bottom_up_iteration(l, r, current, cmp) ==
    IF current = 0
    THEN [l |-> l, r |-> r, current |-> current, exit |-> TRUE]
    ELSE LET parent == (current - 1) \div 2 IN
         IF Call(cmp, At(l, current)[1], At(l, parent)[1])
         THEN LET s == swap(l, r, current, parent) IN
              [l |-> s[1], r |-> s[2], current |-> parent, exit |-> FALSE]
         ELSE [l |-> l, r |-> r, current |-> current, exit |-> TRUE]

\* One iteration of the loop of fix_heap_property_top_down_aux.
top_down_iteration(l, r, current, flt, fgt) ==
    LET left == 2 * current + 1
        right == 2 * current + 2
    IN  IF Len(l) > right
        THEN LET child == IF Call(flt, At(l, left)[1], At(l, right)[1])
                          THEN left ELSE right
             IN  IF Call(fgt, At(l, current)[1], At(l, child)[1])
                 THEN LET s == swap(l, r, current, child) IN
                      [l |-> s[1], r |-> s[2], current |-> child, exit |-> FALSE]
                 ELSE [l |-> l, r |-> r, current |-> current, exit |-> TRUE]
        ELSE IF Len(l) > left
        THEN IF Call(fgt, At(l, current)[1], At(l, left)[1])
             THEN LET s == swap(l, r, current, left) IN
                  [l |-> s[1], r |-> s[2], current |-> left, exit |-> FALSE]
             ELSE [l |-> l, r |-> r, current |-> current, exit |-> TRUE]
        ELSE [l |-> l, r |-> r, current |-> current, exit |-> TRUE]

\* The general case of del_aux that pops the last slot of l where it is,
\* without the swap with the root before.
del_aux_remove_keeps_root(l, r) ==
    LET last == Len(l) - 1
        popped == At(l, last)
        ri == popped[2]
    IN  [l |-> IF ri = last THEN Pop(l)
               ELSE SetMirror(Pop(l), At(r, last)[2], ri),
         r |-> IF ri = last THEN Pop(r) ELSE Pop(VecSwap(r, ri, last)),
         result |-> popped[1], ri |-> ri, last |-> last, inb |-> TRUE]

\* The general case of del_aux up to its first sift: swap of the root with
\* the last slot of l, pop of l, removal of slot ri from r.  inb tells that
\* every index used on the way was inside its array when it was used.
del_aux_remove(l, r) ==
    LET last == Len(l) - 1
        s == swap(l, r, 0, last)
        popped == At(s[1], last)
        ri == popped[2]
    IN  [l |-> IF ri = last THEN Pop(s[1])
               ELSE SetMirror(Pop(s[1]), At(s[2], last)[2], ri),
         r |-> IF ri = last THEN Pop(s[2]) ELSE Pop(VecSwap(s[2], ri, last)),
         result |-> popped[1], ri |-> ri, last |-> last,
         inb |-> /\ At(l, 0)[2] < Len(r) /\ At(l, last)[2] < Len(r)
                 /\ ri # last =>
                       /\ last < Len(s[2])
                       /\ At(s[2], last)[2] < Len(Pop(s[1]))
                       /\ ri < Len(s[2])]

\* The sifts of del_aux with the bottom-up sift of r also when ri == last.
del_aux_sifts_always_up(ls, rs, ri, last) ==
    <<[kind |-> "top_down", side |-> ls, at |-> 0],
      [kind |-> "bottom_up", side |-> rs, at |-> ri]>>

\* The sifts that del_aux calls after the removal: top-down at the root of
\* l, then bottom-up at ri of r if ri != last.
del_aux_sifts(ls, rs, ri, last) ==
    <<[kind |-> "top_down", side |-> ls, at |-> 0]>> \o
    (IF ri # last THEN <<[kind |-> "bottom_up", side |-> rs, at |-> ri]>> ELSE <<>>)

\* The general case of del_aux, its steps switched on or off:
\* fixup: the bottom-up sift of r at ri; popr: the r.pop() of the case
\* ri = last; sink: the top-down sift of l at the root.
del_aux_steps(l, r, cmpl, cmpr, fixup, popr, sink) ==
    LET last == Len(l) - 1
        s == swap(l, r, 0, last)
        popped == At(s[1], last)
        ri == popped[2]
        l1 == Pop(s[1])
        r1 == s[2]
        l2 == IF ri = last THEN l1 ELSE SetMirror(l1, At(r1, last)[2], ri)
        r2 == IF ri = last THEN (IF popr THEN Pop(r1) ELSE r1)
              ELSE Pop(VecSwap(r1, ri, last))
        t == IF sink THEN fix_heap_property_top_down_aux(l2, r2, 0, cmpl, cmpr)
             ELSE <<l2, r2>>
        u == IF ri # last /\ fixup
             THEN fix_heap_property_bottom_up_aux(t[2], t[1], ri, cmpr)
             ELSE <<t[2], t[1]>>
    IN  [l |-> u[2], r |-> u[1], result |-> Some(popped[1])]

\* del_aux without the bottom-up sift at the vacated slot of r.
del_aux_no_fix_up(l, r, cmpl, cmpr) ==
    IF Len(l) = 0
    THEN [l |-> l, r |-> r, result |-> None]
    ELSE IF Len(l) = 1
    THEN [l |-> <<>>, r |-> <<>>, result |-> Some(At(l, Len(l) - 1)[1])]
    ELSE del_aux_steps(l, r, cmpl, cmpr, FALSE, TRUE, TRUE)

\* del_aux without r.pop() when the removed slot is the last one of r.
del_aux_no_pop_r(l, r, cmpl, cmpr) ==
    IF Len(l) = 0
    THEN [l |-> l, r |-> r, result |-> None]
    ELSE IF Len(l) = 1
    THEN [l |-> <<>>, r |-> <<>>, result |-> Some(At(l, Len(l) - 1)[1])]
    ELSE del_aux_steps(l, r, cmpl, cmpr, TRUE, FALSE, TRUE)

\* del_aux that returns the sole element without removing it.
del_aux_peek_one(l, r, cmpl, cmpr) ==
    IF Len(l) = 0
    THEN [l |-> l, r |-> r, result |-> None]
    ELSE IF Len(l) = 1
    THEN [l |-> l, r |-> r, result |-> Some(At(l, Len(l) - 1)[1])]
    ELSE del_aux_steps(l, r, cmpl, cmpr, TRUE, TRUE, TRUE)

\* del_aux without the top-down sift of the new root of l.
del_aux_no_sink(l, r, cmpl, cmpr) ==
    IF Len(l) = 0
    THEN [l |-> l, r |-> r, result |-> None]
    ELSE IF Len(l) = 1
    THEN [l |-> <<>>, r |-> <<>>, result |-> Some(At(l, Len(l) - 1)[1])]
    ELSE del_aux_steps(l, r, cmpl, cmpr, TRUE, TRUE, FALSE)

\* del_aux that clears only l when the sole element is removed.
del_aux_keep_r(l, r, cmpl, cmpr) ==
    IF Len(l) = 0
    THEN [l |-> l, r |-> r, result |-> None]
    ELSE IF Len(l) = 1
    THEN [l |-> <<>>, r |-> r, result |-> Some(At(l, Len(l) - 1)[1])]
    ELSE del_aux_steps(l, r, cmpl, cmpr, TRUE, TRUE, TRUE)

\* Remove the left heap's first element from both heaps.
del_aux(l, r, cmpl, cmpr) ==
    IF Len(l) = 0
    THEN [l |-> l, r |-> r, result |-> None]
    ELSE IF Len(l) = 1
    THEN [l |-> <<>>, r |-> <<>>, result |-> Some(At(l, Len(l) - 1)[1])]
    ELSE LET last == Len(l) - 1
             s == swap(l, r, 0, last)
             popped == At(s[1], last)
             ri == popped[2]
             l1 == Pop(s[1])
             r1 == s[2]
             l2 == IF ri = last THEN l1 ELSE SetMirror(l1, At(r1, last)[2], ri)
             r2 == IF ri = last THEN Pop(r1) ELSE Pop(VecSwap(r1, ri, last))
             t == fix_heap_property_top_down_aux(l2, r2, 0, cmpl, cmpr)
             u == IF ri # last
                  THEN fix_heap_property_bottom_up_aux(t[2], t[1], ri, cmpr)
                  ELSE <<t[2], t[1]>>
         IN  [l |-> u[2], r |-> u[1], result |-> Some(popped[1])]

\* The loop of make_heap: n iterations remain, the next one is at i = n - 1.
RECURSIVE make_heap_loop(_, _)
make_heap_loop(h, n) ==
    IF n = 0 THEN h
    ELSE LET i == n - 1
             a == fix_heap_property_top_down_aux(h.min_array, h.max_array, i, "lt", "gt")
             b == fix_heap_property_top_down_aux(a[2], a[1], i, "gt", "lt")
         IN  make_heap_loop([min_array |-> b[2], max_array |-> b[1]], i)

\* make_heap without its loop of top-down sifts.
make_heap_no_sift(v) ==
    [min_array |-> [k \in DOMAIN v |-> <<v[k], k - 1>>],
     max_array |-> [k \in DOMAIN v |-> <<v[k], k - 1>>]]

make_heap(v) ==
    LET h == [min_array |-> [k \in DOMAIN v |-> <<v[k], k - 1>>],
              max_array |-> [k \in DOMAIN v |-> <<v[k], k - 1>>]]
    IN  make_heap_loop(h, Len(h.min_array))

\* DoubleHeap::is_heap, the helper of the tests.
is_heap(self) ==
    /\ is_heap_aux(Values(self.min_array), "gt")
    /\ is_heap_aux(Values(self.max_array), "lt")

is_empty(self) == self.min_array = <<>>

size(self) == Len(self.min_array)

\* ins that pushes the mirror 0 instead of the new last index.
ins_mirror_zero(self, item) ==
    LET i == Len(self.min_array)
        pushed == [min_array |-> Append(self.min_array, <<item, 0>>),
                   max_array |-> Append(self.max_array, <<item, 0>>)]
    IN  fix_heap_property_bottom_up(pushed, i, i)

\* ins without the sift of the new slot.
ins_no_sift(self, item) ==
    LET i == Len(self.min_array) IN
    [min_array |-> Append(self.min_array, <<item, i>>),
     max_array |-> Append(self.max_array, <<item, i>>)]

ins(self, item) ==
    LET i == Len(self.min_array)
        pushed == [min_array |-> Append(self.min_array, <<item, i>>),
                   max_array |-> Append(self.max_array, <<item, i>>)]
    IN  fix_heap_property_bottom_up(pushed, i, i)

\* min with the test size() <= 1 for the empty queue.
min_none_on_one(self) ==
    IF size(self) <= 1 THEN None ELSE Some(At(self.min_array, 0)[1])

\* DEPQ::ins_all: ins of every element of v, in order.
RECURSIVE ins_all(_, _)
ins_all(self, v) ==
    IF v = <<>> THEN self
    ELSE ins_all(ins(self, Head(v)), Tail(v))

min(self) == IF size(self) = 0 THEN None ELSE Some(At(self.min_array, 0)[1])

\* max that reads the root of min_array.
max_of_min_array(self) ==
    IF size(self) = 0 THEN None ELSE Some(At(self.min_array, 0)[1])

max(self) == IF size(self) = 0 THEN None ELSE Some(At(self.max_array, 0)[1])

del_min(self) ==
    LET d == del_aux(self.min_array, self.max_array, "lt", "gt") IN
    [min_array |-> d.l, max_array |-> d.r, result |-> d.result]

\* del_max with the roles of the arrays of del_min.
del_max_as_del_min(self) == del_min(self)

del_max(self) ==
    LET d == del_aux(self.max_array, self.min_array, "gt", "lt") IN
    [min_array |-> d.r, max_array |-> d.l, result |-> d.result]

\* Equality of the values of min_array as they lie, without the sort.
eq_without_sort(self, rhs) == Values(self.min_array) = Values(rhs.min_array)

\* PartialEq for DoubleHeap.
eq(self, rhs) == sort2(Values(self.min_array)) = sort2(Values(rhs.min_array))

(***************************************************************************)
(* The state machine: one queue, the public operations applied to it.      *)
(* op, arg and result record the last call; bag is the reference multiset  *)
(* (number of copies of every value inserted and not yet deleted); h3 is   *)
(* the clone a round trip compares with (tests::ins_del_min); dels is the   *)
(* set of the deletes that have returned an element of this queue.         *)
(* The variables of the other specifications keep their initial values.    *)
(***************************************************************************)
\* The variables of the stepwise runs and of the other structures.
\* The variables of pq.rs, coin_change.rs and map/bst.rs.
later == <<pq, srt, coin, bst>>

apart == <<sift, probe, uf, later>>

\* The variables that Spec leaves alone, and their initial values.
others == <<twin, drain, apart>>

TwinIdle == twin = [min_array |-> <<>>, max_array |-> <<>>, result |-> None]

DrainIdle == drain = [pc |-> "mix", mode |-> "none", start |-> new, out |-> <<>>]

SiftIdle ==
    sift = [pc |-> "idle", side |-> "min", current |-> 0, todo |-> <<>>,
            last |-> "none", moves |-> 0, inb |-> TRUE]

ProbeIdle ==
    probe = [v |-> <<>>, w |-> <<>>, cmp |-> "gt", verdict |-> TRUE, both |-> TRUE]

NoCall == [op |-> "none", i |-> 0, j |-> 0]

UFIdle ==
    uf = [by_size |-> BySize_new(0), by_rank |-> ByRank_new(0), linked |-> <<>>,
          call |-> NoCall, ret |-> <<None, None>>, touched |-> FALSE]

HeapIdle == pq = [array |-> <<>>, op |-> "new", result |-> None, seen |-> None]

SortIdle == srt = [v |-> <<>>, sort |-> <<>>, sort2 |-> <<>>]

TreeIdle == bst = [t |-> Tree_new, op |-> "new", key |-> 0, value |-> 0, ret |-> None]

CoinIdle == coin = [coins |-> {}, amount |-> 0, ret |-> Some(0)]

OthersIdle ==
    /\ TwinIdle /\ DrainIdle /\ SiftIdle /\ ProbeIdle /\ UFIdle /\ HeapIdle /\ SortIdle
    /\ CoinIdle /\ TreeIdle

\* The variables of the queue, of its stepwise run and of the union-find.
earlier ==
    <<min_array, max_array, op, arg, result, bag, h3, dels, twin, drain, sift, probe, uf>>

this == [min_array |-> min_array, max_array |-> max_array]

EmptyBag == [v \in Vals |-> 0]

\* The multiset of the values of a sequence.
BagOf(v) == [x \in Vals |-> Cardinality({k \in DOMAIN v : v[k] = x})]

BagNonEmpty(b) == \E x \in Vals : b[x] > 0

BagMin(b) == CHOOSE x \in Vals : b[x] > 0 /\ \A y \in Vals : b[y] > 0 => x <= y

BagMax(b) == CHOOSE x \in Vals : b[x] > 0 /\ \A y \in Vals : b[y] > 0 => x >= y

BagRemove(b, x) == [b EXCEPT ![x] = b[x] - 1]

BagAdd(b, x) == [b EXCEPT ![x] = b[x] + 1]

\* All sequences over Vals of length at most n.
SeqsUpTo(n) == UNION {[1 .. k -> Vals] : k \in 0 .. n}

Init ==
    /\ min_array = new.min_array
    /\ max_array = new.max_array
    /\ op = "new"
    /\ arg = None
    /\ result = None
    /\ bag = EmptyBag
    /\ h3 = None
    /\ dels = {}
    /\ OthersIdle

MakeHeap ==
    /\ op = "new"
    /\ \E v \in SeqsUpTo(MaxLen) :
        LET h == make_heap(v) IN
        /\ min_array' = h.min_array
        /\ max_array' = h.max_array
        /\ op' = "make_heap"
        /\ arg' = None
        /\ result' = None
        /\ bag' = BagOf(v)
        /\ h3' = None
        /\ dels' = {}
        /\ UNCHANGED others

Ins ==
    \E item \in Vals :
        /\ size(this) < MaxLen
        /\ LET h == ins(this, item) IN
           /\ min_array' = h.min_array
           /\ max_array' = h.max_array
        /\ op' = "ins"
        /\ arg' = Some(item)
        /\ result' = None
        /\ bag' = BagAdd(bag, item)
        /\ h3' = IF op \in {"del_min", "del_max"} /\ result = Some(item)
                 THEN h3 ELSE None
        /\ dels' = dels
        /\ UNCHANGED others

DelMin ==
    LET d == del_min(this) IN
    /\ min_array' = d.min_array
    /\ max_array' = d.max_array
    /\ op' = "del_min"
    /\ arg' = None
    /\ result' = d.result
    /\ bag' = IF BagNonEmpty(bag) THEN BagRemove(bag, BagMin(bag)) ELSE bag
    /\ h3' = Some(this)
    /\ dels' = IF d.result # None THEN dels \cup {"del_min"} ELSE dels
    /\ UNCHANGED others

DelMax ==
    LET d == del_max(this) IN
    /\ min_array' = d.min_array
    /\ max_array' = d.max_array
    /\ op' = "del_max"
    /\ arg' = None
    /\ result' = d.result
    /\ bag' = IF BagNonEmpty(bag) THEN BagRemove(bag, BagMax(bag)) ELSE bag
    /\ h3' = Some(this)
    /\ dels' = IF d.result # None THEN dels \cup {"del_max"} ELSE dels
    /\ UNCHANGED others

Next == MakeHeap \/ Ins \/ DelMin \/ DelMax

Spec == Init /\ [][Next]_vars

(***************************************************************************)
(* Bulk build against repeated insertion: the queue make_heap(v) and the   *)
(* queue new().ins_all(v), twin, receive the same calls.                   *)
(***************************************************************************)
BuildBoth ==
    /\ op = "new"
    /\ \E v \in SeqsUpTo(BuildLen) :
        LET h == make_heap(v)
            t == ins_all(new, v)
        IN  /\ min_array' = h.min_array
            /\ max_array' = h.max_array
            /\ twin' = [min_array |-> t.min_array, max_array |-> t.max_array,
                        result |-> None]
            /\ op' = "make_heap"
            /\ arg' = None
            /\ result' = None
            /\ UNCHANGED <<bag, h3, dels, drain, apart>>

InsBoth ==
    /\ op # "new"
    /\ size(this) < BuildLen
    /\ \E item \in Vals :
        LET h == ins(this, item)
            t == ins(twin, item)
        IN  /\ min_array' = h.min_array
            /\ max_array' = h.max_array
            /\ twin' = [min_array |-> t.min_array, max_array |-> t.max_array,
                        result |-> None]
            /\ op' = "ins"
            /\ arg' = Some(item)
            /\ result' = None
            /\ UNCHANGED <<bag, h3, dels, drain, apart>>

DelMinBoth ==
    /\ op # "new"
    /\ LET d == del_min(this) IN
       /\ min_array' = d.min_array
       /\ max_array' = d.max_array
       /\ result' = d.result
    /\ twin' = del_min(twin)
    /\ op' = "del_min"
    /\ arg' = None
    /\ UNCHANGED <<bag, h3, dels, drain, apart>>

DelMaxBoth ==
    /\ op # "new"
    /\ LET d == del_max(this) IN
       /\ min_array' = d.min_array
       /\ max_array' = d.max_array
       /\ result' = d.result
    /\ twin' = del_max(twin)
    /\ op' = "del_max"
    /\ arg' = None
    /\ UNCHANGED <<bag, h3, dels, drain, apart>>

NextBuild == BuildBoth \/ InsBoth \/ DelMinBoth \/ DelMaxBoth

SpecBuild == Init /\ [][NextBuild]_vars

(***************************************************************************)
(* Draining a queue: calls in any order bring the queue to some state      *)
(* (drain.pc = "mix"), then the loop of main in bin.rs deletes at one end  *)
(* until the delete returns None.  drain.start is the queue the loop       *)
(* started on and drain.out the values the loop has received.              *)
(***************************************************************************)
Mixing == drain.pc = "mix"

MixMakeHeap ==
    /\ Mixing
    /\ op = "new"
    /\ \E v \in SeqsUpTo(MaxLen) :
        LET h == make_heap(v) IN
        /\ min_array' = h.min_array
        /\ max_array' = h.max_array
        /\ op' = "make_heap"
        /\ arg' = None
        /\ result' = None
        /\ UNCHANGED <<bag, h3, dels, twin, drain, apart>>

MixIns ==
    /\ Mixing
    /\ size(this) < MaxLen
    /\ \E item \in Vals :
        LET h == ins(this, item) IN
        /\ min_array' = h.min_array
        /\ max_array' = h.max_array
        /\ op' = "ins"
        /\ arg' = Some(item)
        /\ result' = None
        /\ UNCHANGED <<bag, h3, dels, twin, drain, apart>>

MixDel ==
    /\ Mixing
    /\ \E m \in {"del_min", "del_max"} :
        LET d == IF m = "del_min" THEN del_min(this) ELSE del_max(this) IN
        /\ min_array' = d.min_array
        /\ max_array' = d.max_array
        /\ op' = m
        /\ arg' = None
        /\ result' = d.result
        /\ UNCHANGED <<bag, h3, dels, twin, drain, apart>>

\* One iteration of loop { match h.del_max() { Some(_) => {}, None => break } },
\* or of the same loop with del_min.
DrainLoop ==
    \E m \in {"del_min", "del_max"} :
        /\ \/ Mixing
           \/ drain.pc = "loop" /\ drain.mode = m
        /\ LET d == IF m = "del_min" THEN del_min(this) ELSE del_max(this)
               st == IF Mixing THEN this ELSE drain.start
               out == IF Mixing THEN <<>> ELSE drain.out
           IN  /\ min_array' = d.min_array
               /\ max_array' = d.max_array
               /\ op' = m
               /\ arg' = None
               /\ result' = d.result
               /\ drain' = [pc |-> IF d.result = None THEN "done" ELSE "loop",
                            mode |-> m,
                            start |-> st,
                            out |-> IF d.result = None THEN out
                                    ELSE Append(out, d.result[1])]
        /\ UNCHANGED <<bag, h3, dels, twin, apart>>

NextDrain == MixMakeHeap \/ MixIns \/ MixDel \/ DrainLoop

SpecDrain == Init /\ [][NextDrain]_vars

(***************************************************************************)
(* The operations with their sift loops run one iteration at a time, on    *)
(* the arrays in place.  sift.todo is the list of the calls of             *)
(* fix_heap_property_bottom_up_aux / fix_heap_property_top_down_aux that   *)
(* the operation under way has still to make, sift.pc the loop that is     *)
(* running on the array sift.side (as l) at the index sift.current,        *)
(* sift.last the kind of the loop entered last and sift.moves the number   *)
(* of swaps it has made.                                                   *)
(***************************************************************************)
Quiet == sift.pc = "idle" /\ sift.todo = <<>>

SiftCallOf(kind, side, at) == [kind |-> kind, side |-> side, at |-> at]

\* for i in (0 .. s).rev(): the top-down sift of min_array, then of max_array.
RECURSIVE make_heap_calls(_)
make_heap_calls(n) ==
    IF n = 0 THEN <<>>
    ELSE <<SiftCallOf("top_down", "min", n - 1), SiftCallOf("top_down", "max", n - 1)>>
         \o make_heap_calls(n - 1)

SiftMakeHeap ==
    /\ Quiet
    /\ op = "new"
    /\ \E v \in SeqsUpTo(MaxLen) :
        /\ min_array' = [k \in DOMAIN v |-> <<v[k], k - 1>>]
        /\ max_array' = [k \in DOMAIN v |-> <<v[k], k - 1>>]
        /\ sift' = [sift EXCEPT !.todo = make_heap_calls(Len(v)), !.inb = TRUE]
    /\ op' = "make_heap"
    /\ arg' = None
    /\ result' = None
    /\ UNCHANGED <<bag, h3, dels, twin, drain, probe, uf, later>>

SiftIns ==
    /\ Quiet
    /\ size(this) < MaxLen
    /\ \E item \in Vals :
        LET i == Len(min_array) IN
        /\ min_array' = Append(min_array, <<item, i>>)
        /\ max_array' = Append(max_array, <<item, i>>)
        /\ sift' = [sift EXCEPT !.todo = <<SiftCallOf("bottom_up", "min", i),
                                           SiftCallOf("bottom_up", "max", i)>>,
                             !.inb = TRUE]
        /\ arg' = Some(item)
    /\ op' = "ins"
    /\ result' = None
    /\ UNCHANGED <<bag, h3, dels, twin, drain, probe, uf, later>>

\* del_aux up to its first sift, on l = the array of side ls.
SiftDel ==
    /\ Quiet
    /\ \E m \in {"del_min", "del_max"} :
        LET ls == IF m = "del_min" THEN "min" ELSE "max"
            rs == IF m = "del_min" THEN "max" ELSE "min"
            l == IF m = "del_min" THEN min_array ELSE max_array
            r == IF m = "del_min" THEN max_array ELSE min_array
            d == del_aux_remove(l, r)
            nl == IF Len(l) = 0 THEN l ELSE IF Len(l) = 1 THEN <<>> ELSE d.l
            nr == IF Len(l) = 0 THEN r ELSE IF Len(l) = 1 THEN <<>> ELSE d.r
        IN  /\ min_array' = IF m = "del_min" THEN nl ELSE nr
            /\ max_array' = IF m = "del_min" THEN nr ELSE nl
            /\ result' = IF Len(l) = 0 THEN None
                         ELSE IF Len(l) = 1 THEN Some(At(l, 0)[1])
                         ELSE Some(d.result)
            /\ sift' = [sift EXCEPT
                          !.todo = IF Len(l) <= 1 THEN <<>>
                                   ELSE del_aux_sifts(ls, rs, d.ri, d.last),
                          !.inb = IF Len(l) <= 1 THEN TRUE ELSE d.inb,
                          !.last = "none", !.moves = 0]
            /\ op' = m
    /\ arg' = None
    /\ UNCHANGED <<bag, h3, dels, twin, drain, probe, uf, later>>

\* Entry of the next sift: let mut current = i.
SiftCall ==
    /\ sift.pc = "idle"
    /\ sift.todo # <<>>
    /\ sift' = [pc |-> Head(sift.todo).kind, side |-> Head(sift.todo).side,
                current |-> Head(sift.todo).at, todo |-> Tail(sift.todo),
                last |-> Head(sift.todo).kind, moves |-> 0, inb |-> sift.inb]
    /\ UNCHANGED <<min_array, max_array, op, arg, result, bag, h3, dels, twin, drain,
                   probe, uf, later>>

\* One iteration of the running loop.
SiftStep ==
    /\ sift.pc # "idle"
    /\ LET l == IF sift.side = "min" THEN min_array ELSE max_array
           r == IF sift.side = "min" THEN max_array ELSE min_array
           flt == IF sift.side = "min" THEN "lt" ELSE "gt"
           fgt == IF sift.side = "min" THEN "gt" ELSE "lt"
           it == IF sift.pc = "bottom_up"
                 THEN bottom_up_iteration(l, r, sift.current, flt)
                 ELSE top_down_iteration(l, r, sift.current, flt, fgt)
       IN  /\ min_array' = IF sift.side = "min" THEN it.l ELSE it.r
           /\ max_array' = IF sift.side = "min" THEN it.r ELSE it.l
           /\ sift' = [sift EXCEPT !.pc = IF it.exit THEN "idle" ELSE @,
                                   !.current = it.current,
                                   !.moves = IF it.exit THEN @ ELSE @ + 1]
    /\ UNCHANGED <<op, arg, result, bag, h3, dels, twin, drain, probe, uf, later>>

NextSift == SiftMakeHeap \/ SiftIns \/ SiftDel \/ SiftCall \/ SiftStep

\* A call that has been entered runs on: the program is sequential.
SpecSift == Init /\ [][NextSift]_vars /\ WF_vars(SiftCall) /\ WF_vars(SiftStep)

(***************************************************************************)
(* is_heap_aux called on any vector v with either comparison, and the      *)
(* is_heap of a DoubleHeap whose arrays hold v and w.                      *)
(***************************************************************************)
Reverse(v) == [k \in DOMAIN v |-> v[Len(v) + 1 - k]]

Slots(v) == [k \in DOMAIN v |-> <<v[k], k - 1>>]

IsHeapAux ==
    /\ ProbeIdle
    /\ \E v \in SeqsUpTo(MaxLen) : \E cmp \in {"lt", "gt"} : \E w \in {v, Reverse(v)} :
        probe' = [v |-> v, w |-> w, cmp |-> cmp,
                  verdict |-> is_heap_aux(v, cmp),
                  both |-> is_heap([min_array |-> Slots(v), max_array |-> Slots(w)])]
    /\ UNCHANGED <<min_array, max_array, op, arg, result, bag, h3, dels, twin, drain, sift, uf,
                   later>>

NextIsHeap == IsHeapAux

SpecIsHeap == Init /\ [][NextIsHeap]_vars

(***************************************************************************)
(* A union_by_size and a union_by_rank structure under the same calls of   *)
(* new, union and find, with indices in and out of range.  uf.linked gives *)
(* every element the least element it has been joined with by the unions   *)
(* made so far; uf.call is the last call, uf.ret what find returned in the *)
(* two structures, uf.touched whether the call changed a parents vector.   *)
(***************************************************************************)
Indices == 0 .. MaxN

Least(a, b) == IF a <= b THEN a ELSE b

Join(linked, i, j) ==
    IF i < Len(linked) /\ j < Len(linked)
    THEN [k \in DOMAIN linked |->
            IF linked[k] \in {At(linked, i), At(linked, j)}
            THEN Least(At(linked, i), At(linked, j))
            ELSE linked[k]]
    ELSE linked

UFNew ==
    /\ uf.call.op = "none"
    /\ \E n \in 0 .. MaxN :
        uf' = [by_size |-> BySize_new(n), by_rank |-> ByRank_new(n),
               linked |-> [k \in 1 .. n |-> k - 1],
               call |-> [op |-> "new", i |-> n, j |-> 0],
               ret |-> <<None, None>>, touched |-> FALSE]
    /\ UNCHANGED <<min_array, max_array, op, arg, result, bag, h3, dels, twin, drain,
                   sift, probe, later>>

UFUnion ==
    /\ uf.call.op # "none"
    /\ \E i \in Indices : \E j \in Indices :
        LET s == BySize_union(uf.by_size, i, j)
            r == ByRank_union(uf.by_rank, i, j)
        IN  uf' = [by_size |-> s, by_rank |-> r,
                   linked |-> Join(uf.linked, i, j),
                   call |-> [op |-> "union", i |-> i, j |-> j],
                   ret |-> <<None, None>>,
                   touched |-> (s.parents # uf.by_size.parents
                                \/ r.parents # uf.by_rank.parents)]
    /\ UNCHANGED <<min_array, max_array, op, arg, result, bag, h3, dels, twin, drain,
                   sift, probe, later>>

UFFind ==
    /\ uf.call.op # "none"
    /\ \E i \in Indices :
        LET s == BySize_find(uf.by_size, i)
            r == ByRank_find(uf.by_rank, i)
        IN  uf' = [by_size |-> s.self, by_rank |-> r.self,
                   linked |-> uf.linked,
                   call |-> [op |-> "find", i |-> i, j |-> 0],
                   ret |-> <<s.ret, r.ret>>,
                   touched |-> (s.self.parents # uf.by_size.parents
                                \/ r.self.parents # uf.by_rank.parents)]
    /\ UNCHANGED <<min_array, max_array, op, arg, result, bag, h3, dels, twin, drain,
                   sift, probe, later>>

NextUF == UFNew \/ UFUnion \/ UFFind

SpecUF == Init /\ [][NextUF]_vars

(***************************************************************************)
(* pq.rs: one Heap under make_heap_bottom_up / make_heap_top_down, insert  *)
(* and del_min.  pq.seen is what min() reported before the last call.      *)
(***************************************************************************)
HeapMake ==
    /\ pq.op = "new"
    /\ \E v \in SeqsUpTo(MaxLen) : \E how \in {"make_heap_bottom_up", "make_heap_top_down"} :
        pq' = [array |-> IF how = "make_heap_bottom_up"
                         THEN Heap_make_heap_bottom_up(v)
                         ELSE Heap_make_heap_top_down(v),
               op |-> how, result |-> None, seen |-> Heap_min(pq.array)]
    /\ UNCHANGED <<earlier, srt, coin, bst>>

HeapInsert ==
    /\ Len(pq.array) < MaxLen
    /\ \E elem \in Vals :
        pq' = [array |-> Heap_insert(pq.array, elem), op |-> "insert",
               result |-> None, seen |-> Heap_min(pq.array)]
    /\ UNCHANGED <<earlier, srt, coin, bst>>

HeapDelMin ==
    /\ pq' = [array |-> Heap_del_min(pq.array).array, op |-> "del_min",
              result |-> Heap_del_min(pq.array).result, seen |-> Heap_min(pq.array)]
    /\ UNCHANGED <<earlier, srt, coin, bst>>

NextHeap == HeapMake \/ HeapInsert \/ HeapDelMin

SpecHeap == Init /\ [][NextHeap]_vars

(***************************************************************************)
(* pq.rs: heapsort of any vector, by sort and by sort2.                    *)
(***************************************************************************)
HeapSort ==
    /\ SortIdle
    /\ \E v \in SeqsUpTo(MaxLen) :
        srt' = [v |-> v, sort |-> Heap_sort(v), sort2 |-> sort2(v)]
    /\ UNCHANGED <<earlier, pq, coin, bst>>

NextSort == HeapSort

SpecSort == Init /\ [][NextSort]_vars

(***************************************************************************)
(* coin_change.rs: make_change_count called on any set of coins and any    *)
(* amount.                                                                 *)
(***************************************************************************)
MakeChangeCount ==
    /\ CoinIdle
    /\ \E coins \in SUBSET (0 .. MaxAmount + 1) : \E amount \in 0 .. MaxAmount :
        coin' = [coins |-> coins, amount |-> amount,
                 ret |-> make_change_count(coins, amount)]
    /\ UNCHANGED <<earlier, pq, srt, bst>>

NextCoin == MakeChangeCount

SpecCoin == Init /\ [][NextCoin]_vars

(***************************************************************************)
(* map/bst.rs: one Tree under ins, del and find.  bst.ret is what the last *)
(* call returned (ins returns the tree itself: None here).                 *)
(***************************************************************************)
Keys == 0 .. MaxKey

TreeIns ==
    /\ \E key \in Keys : \E value \in Vals :
        bst' = [t |-> Tree_ins(bst.t, key, value), op |-> "ins", key |-> key,
                value |-> value, ret |-> None]
    /\ UNCHANGED <<earlier, pq, srt, coin>>

TreeDel ==
    /\ \E key \in Keys :
        bst' = [t |-> Tree_del(bst.t, key).self, op |-> "del", key |-> key,
                value |-> 0, ret |-> Tree_del(bst.t, key).ret]
    /\ UNCHANGED <<earlier, pq, srt, coin>>

TreeFind ==
    /\ \E key \in Keys :
        bst' = [bst EXCEPT !.op = "find", !.key = key, !.value = 0,
                           !.ret = Tree_find(bst.t, key)]
    /\ UNCHANGED <<earlier, pq, srt, coin>>

NextTree == TreeIns \/ TreeDel \/ TreeFind

SpecTree == Init /\ [][NextTree]_vars

(***************************************************************************)
(* Equality: two queues with histories of their own, this built by         *)
(* make_heap and twin by ins_all, each under its own ins, del_min and      *)
(* del_max; a == b is eq(this, twin).                                      *)
(***************************************************************************)
EqBuild ==
    /\ op = "new"
    /\ \E v \in SeqsUpTo(EqLen) : \E w \in SeqsUpTo(EqLen) :
        LET h == make_heap(v)
            t == ins_all(new, w)
        IN  /\ min_array' = h.min_array
            /\ max_array' = h.max_array
            /\ twin' = [min_array |-> t.min_array, max_array |-> t.max_array,
                        result |-> None]
    /\ op' = "make_heap"
    /\ arg' = None
    /\ result' = None
    /\ UNCHANGED <<bag, h3, dels, drain, apart>>

EqInsThis ==
    /\ op # "new"
    /\ size(this) < EqLen
    /\ \E item \in Vals :
        LET h == ins(this, item) IN
        /\ min_array' = h.min_array
        /\ max_array' = h.max_array
        /\ arg' = Some(item)
    /\ op' = "ins_this"
    /\ result' = None
    /\ UNCHANGED <<bag, h3, dels, twin, drain, apart>>

EqInsTwin ==
    /\ op # "new"
    /\ size(twin) < EqLen
    /\ \E item \in Vals :
        LET t == ins(twin, item) IN
        /\ twin' = [min_array |-> t.min_array, max_array |-> t.max_array,
                    result |-> None]
        /\ arg' = Some(item)
    /\ op' = "ins_twin"
    /\ result' = None
    /\ UNCHANGED <<min_array, max_array, bag, h3, dels, drain, apart>>

EqDelThis ==
    /\ op # "new"
    /\ \E m \in {"del_min", "del_max"} :
        LET d == IF m = "del_min" THEN del_min(this) ELSE del_max(this) IN
        /\ min_array' = d.min_array
        /\ max_array' = d.max_array
        /\ result' = d.result
    /\ op' = "del_this"
    /\ arg' = None
    /\ UNCHANGED <<bag, h3, dels, twin, drain, apart>>

EqDelTwin ==
    /\ op # "new"
    /\ \E m \in {"del_min", "del_max"} :
        twin' = IF m = "del_min" THEN del_min(twin) ELSE del_max(twin)
    /\ op' = "del_twin"
    /\ arg' = None
    /\ result' = None
    /\ UNCHANGED <<min_array, max_array, bag, h3, dels, drain, apart>>

NextEq == EqBuild \/ EqInsThis \/ EqInsTwin \/ EqDelThis \/ EqDelTwin

SpecEq == Init /\ [][NextEq]_vars

(***************************************************************************)
(* Properties.                                                             *)
(***************************************************************************)
\* No parent of v is greater than an existing child at 2i+1 / 2i+2.
ValidMinHeap(v) ==
    \A i \in 0 .. Len(v) - 1 : \A c \in {2 * i + 1, 2 * i + 2} :
        c < Len(v) => ~(At(v, i) > At(v, c))

\* No parent of v is less than an existing child at 2i+1 / 2i+2.
ValidMaxHeap(v) ==
    \A i \in 0 .. Len(v) - 1 : \A c \in {2 * i + 1, 2 * i + 2} :
        c < Len(v) => ~(At(v, i) < At(v, c))

\* Every slot of l points to a slot of r that points back and holds the
\* same value.
Mirrored(l, r) ==
    \A i \in 0 .. Len(l) - 1 :
        LET j == At(l, i)[2] IN
        /\ j \in 0 .. Len(r) - 1
        /\ At(r, j)[2] = i
        /\ At(r, j)[1] = At(l, i)[1]

\* The queue the last delete was called on (the clone kept in h3).
Before == h3[1]

Deleted == op \in {"del_min", "del_max"}

\* C1: in every reachable state the values of min_array form a valid
\* min-heap and the values of max_array form a valid max-heap.
C1_ShapeInvariant ==
    /\ ValidMinHeap(Values(min_array))
    /\ ValidMaxHeap(Values(max_array))

\* A delete has run whose relocated tail element had to be sifted up in
\* the other array: without that sift the other array is not a heap.
C1_Witness ==
    /\ Deleted
    /\ h3 # None
    /\ Len(Before.min_array) >= 2
    /\ \/ /\ op = "del_min"
          /\ ~ValidMaxHeap(Values(del_aux_no_fix_up(Before.min_array,
                                      Before.max_array, "lt", "gt").r))
       \/ /\ op = "del_max"
          /\ ~ValidMinHeap(Values(del_aux_no_fix_up(Before.max_array,
                                      Before.min_array, "gt", "lt").r))

\* C2: after every operation each slot of min_array mirrors a slot of
\* max_array that mirrors it back and holds the same value, and
\* symmetrically for every slot of max_array.
C2_MirrorInvariant ==
    /\ Mirrored(min_array, max_array)
    /\ Mirrored(max_array, min_array)

\* A del_min has run on a queue whose least element was not in the last
\* slot of max_array (the case ri != last), leaving at least two elements.
C2_Witness ==
    /\ op = "del_min"
    /\ h3 # None
    /\ Len(Before.min_array) >= 3
    /\ At(Before.min_array, 0)[2] # Len(Before.min_array) - 1
    /\ min_array # <<>>

\* C3: both arrays have the same length, so the queue is Empty (both
\* empty) or Populated (both non-empty), and size() and is_empty() describe
\* max_array as well.
C3_SizeEquality ==
    /\ Len(min_array) = Len(max_array)
    /\ size(this) = Len(max_array)
    /\ is_empty(this) <=> (max_array = <<>>)

\* A delete has run that removed an element whose mirror was the last slot
\* of the other array (the case ri = last), from a queue of three or more.
C3_Witness ==
    /\ Deleted
    /\ h3 # None
    /\ Len(Before.min_array) >= 3
    /\ \/ op = "del_min" /\ At(Before.min_array, 0)[2] = Len(Before.min_array) - 1
       \/ op = "del_max" /\ At(Before.max_array, 0)[2] = Len(Before.max_array) - 1
    /\ Len(min_array) = Len(Before.min_array) - 1

\* C4: after del_min returns m no remaining element is less than m, and
\* after del_max returns m no remaining element is greater than m.
C4_ExtremalCorrectness ==
    /\ (op = "del_min" /\ result # None) =>
          /\ \A k \in DOMAIN min_array : ~(min_array[k][1] < result[1])
          /\ \A k \in DOMAIN max_array : ~(max_array[k][1] < result[1])
    /\ (op = "del_max" /\ result # None) =>
          /\ \A k \in DOMAIN max_array : ~(max_array[k][1] > result[1])
          /\ \A k \in DOMAIN min_array : ~(min_array[k][1] > result[1])

\* A del_max has returned m and left a copy of m and a smaller element.
C4_Witness ==
    /\ op = "del_max"
    /\ result # None
    /\ \E k \in DOMAIN max_array : max_array[k][1] = result[1]
    /\ \E k \in DOMAIN max_array : max_array[k][1] < result[1]

\* C5: on a non-empty queue min() is the least and max() the greatest of
\* the elements in the queue; after ins(x) with x not greater than every
\* element min() is x, and with x not less than every element max() is x.
C5_PeekCorrectness ==
    /\ ~is_empty(this) =>
          /\ min(this) # None
          /\ max(this) # None
          /\ \A k \in DOMAIN min_array :
                min(this)[1] <= min_array[k][1] /\ max(this)[1] >= min_array[k][1]
          /\ \A k \in DOMAIN max_array :
                min(this)[1] <= max_array[k][1] /\ max(this)[1] >= max_array[k][1]
          /\ \E k \in DOMAIN min_array : min_array[k][1] = min(this)[1]
          /\ \E k \in DOMAIN max_array : max_array[k][1] = max(this)[1]
    /\ (op = "ins" /\ \A k \in DOMAIN min_array : ~(arg[1] > min_array[k][1]))
          => min(this) = arg
    /\ (op = "ins" /\ \A k \in DOMAIN min_array : ~(arg[1] < min_array[k][1]))
          => max(this) = arg

\* An ins has put a new strict maximum into a queue of three or more.
C5_Witness ==
    /\ op = "ins"
    /\ Len(min_array) >= 4
    /\ max(this) = arg
    /\ Cardinality({k \in DOMAIN min_array : min_array[k][1] = arg[1]}) = 1
    /\ min(this) # arg

\* C6: del_min returns what min() returned just before the call and
\* del_max what max() returned just before (None on an empty queue).
C6_PeekDeleteAgreement ==
    /\ op = "del_min" => result = min(Before)
    /\ op = "del_max" => result = max(Before)

\* A del_max has run on a queue whose min() and max() differ.
C6_Witness ==
    /\ op = "del_max"
    /\ result # None
    /\ result = max(Before)
    /\ min(Before) # max(Before)

\* The step of the reference bag that one step of the queue has to match.
C7_Step ==
    /\ BagOf(Values(min_array')) = bag'
    /\ BagOf(Values(max_array')) = bag'
    /\ op' = "ins" => bag' = BagAdd(bag, arg'[1])
    /\ (op' = "del_min" /\ BagNonEmpty(bag)) =>
          result' = Some(BagMin(bag)) /\ bag' = BagRemove(bag, BagMin(bag))
    /\ (op' = "del_max" /\ BagNonEmpty(bag)) =>
          result' = Some(BagMax(bag)) /\ bag' = BagRemove(bag, BagMax(bag))
    /\ (op' \in {"del_min", "del_max"} /\ ~BagNonEmpty(bag)) =>
          result' = None /\ bag' = bag

\* C7: under any interleaving of ins, del_min and del_max each array holds
\* exactly the multiset of the values inserted and not yet deleted; del_min
\* returns and removes one copy of the minimum of that multiset and del_max
\* one copy of its maximum, from both arrays.
C7_MultisetRefinement == [][C7_Step]_vars

\* A del_max has removed the greatest element of a queue that del_min had
\* already removed elements from, its slot of min_array not being the last
\* one; two or more elements, some of them equal, remain in both arrays.
C7_Witness ==
    /\ op = "del_max"
    /\ result # None
    /\ "del_min" \in dels
    /\ Len(min_array) >= 2
    /\ BagOf(Values(max_array)) = bag
    /\ \E x \in Vals : bag[x] >= 2
    /\ \E x \in Vals : bag[x] = 1
    /\ At(Before.max_array, 0)[2] # Len(Before.max_array) - 1

\* C8: size() after ins is the previous size + 1, after a delete that
\* returns Some the previous size - 1, after a delete on an empty queue 0.
C8_Step ==
    /\ op' = "ins" => size([min_array |-> min_array', max_array |-> max_array'])
                         = size(this) + 1
    /\ (op' \in {"del_min", "del_max"} /\ result' # None) =>
          size([min_array |-> min_array', max_array |-> max_array']) = size(this) - 1
    /\ (op' \in {"del_min", "del_max"} /\ size(this) = 0) =>
          size([min_array |-> min_array', max_array |-> max_array']) = 0

C8_SizeLaws == [][C8_Step]_vars

\* A delete has returned the sole element of a queue of size 1.
C8_Witness ==
    /\ Deleted
    /\ result # None
    /\ size(Before) = 1
    /\ size(this) = 0

\* C9: deleting the minimum (or the maximum) and inserting the returned
\* value back gives a queue equal (DoubleHeap ==) to the one before the
\* delete; a delete on an empty queue returns None and leaves an equal queue.
C9_RoundTrip ==
    /\ (op = "ins" /\ h3 # None) => eq(this, Before)
    /\ (Deleted /\ result = None) => eq(this, Before)

\* A deleted maximum has been inserted back and the arrays are laid out
\* differently from the ones before the delete.
C9_Witness ==
    /\ op = "ins"
    /\ h3 # None
    /\ Len(min_array) >= 3
    /\ arg = max(this)
    /\ this # Before
    /\ Values(min_array) # Values(Before.min_array)

\* C10: on an empty queue size() is 0, is_empty() holds, min() and max()
\* return None, and del_min() and del_max() return None and leave both
\* arrays empty; new() and make_heap of the empty sequence are empty.
C10_EmptySemantics ==
    /\ op = "new" => is_empty(this)
    /\ (op = "make_heap" /\ bag = EmptyBag) => is_empty(this)
    /\ is_empty(this) =>
          /\ size(this) = 0
          /\ min(this) = None
          /\ max(this) = None
          /\ min_array = <<>> /\ max_array = <<>>
    /\ (Deleted /\ is_empty(Before)) =>
          /\ result = None
          /\ min_array = <<>> /\ max_array = <<>>
          /\ this = Before

\* A del_max has run on a queue that deletes had emptied.
C10_Witness ==
    /\ op = "del_max"
    /\ dels # {}
    /\ is_empty(Before)
    /\ result = None
    /\ is_empty(this)

\* C11: is_empty() is false, size() != 0, min() is Some, max() is Some,
\* del_min() would return Some and del_max() would return Some are all
\* equivalent; after any ins is_empty() is false.
C11_EmptinessEquivalence ==
    LET e == ~is_empty(this) IN
    /\ e <=> (size(this) # 0)
    /\ e <=> (min(this) # None)
    /\ e <=> (max(this) # None)
    /\ e <=> (del_min(this).result # None)
    /\ e <=> (del_max(this).result # None)
    /\ op = "ins" => e

\* An ins has populated a queue that deletes had emptied.
C11_Witness ==
    /\ op = "ins"
    /\ size(this) = 1
    /\ dels # {}
    /\ min(this) = arg

\* The number of elements of a bag.
RECURSIVE BagSizeUpTo(_, _)
BagSizeUpTo(b, x) == IF x < 0 THEN 0 ELSE b[x] + BagSizeUpTo(b, x - 1)

BagSize(b) == BagSizeUpTo(b, MaxVal)

\* C13: the values of each array of make_heap(v) are the multiset of v,
\* size() is len(v) and is_empty() holds iff v is empty (bag is the
\* multiset of the argument v).
C13_MakeHeapContents ==
    op = "make_heap" =>
        /\ BagOf(Values(min_array)) = bag
        /\ BagOf(Values(max_array)) = bag
        /\ size(this) = BagSize(bag)
        /\ is_empty(this) <=> (bag = EmptyBag)

\* make_heap has built a queue of four or more elements with repeated
\* values whose two arrays are laid out differently.
C13_Witness ==
    /\ op = "make_heap"
    /\ size(this) >= 4
    /\ Values(min_array) # Values(max_array)
    /\ \A x \in Vals : bag[x] >= 2

\* C15: a del_min or del_max on a queue of size 1 returns the sole element
\* and leaves both arrays empty.
C15_SingleElementDelete ==
    (Deleted /\ size(Before) = 1) =>
        /\ result = Some(At(Before.min_array, 0)[1])
        /\ result = Some(At(Before.max_array, 0)[1])
        /\ min_array = <<>>
        /\ max_array = <<>>

\* A del_max has removed the sole element left by del_min and del_max.
C15_Witness ==
    /\ op = "del_max"
    /\ size(Before) = 1
    /\ result # None
    /\ dels = {"del_min", "del_max"}
    /\ max_array = <<>>

\* The queue q holds k >= 1 elements, all of them copies of x.
OnlyCopies(q, x, k) ==
    /\ k >= 1
    /\ Len(q.min_array) = k
    /\ \A n \in DOMAIN q.min_array : q.min_array[n][1] = x
    /\ \A n \in DOMAIN q.max_array : q.max_array[n][1] = x

\* The mirrors of l are a bijection from the slots of l to the slots of r.
MirrorBijection(l, r) ==
    /\ Len(l) = Len(r)
    /\ {l[n][2] : n \in DOMAIN l} = 0 .. Len(r) - 1

C16_Step ==
    LET next == [min_array |-> min_array', max_array |-> max_array'] IN
    \A x \in Vals : \A k \in 1 .. MaxLen + 1 :
        OnlyCopies(this, x, k) =>
            /\ (op' = "ins" /\ arg' = Some(x)) =>
                  /\ OnlyCopies(next, x, k + 1)
                  /\ MirrorBijection(next.min_array, next.max_array)
                  /\ MirrorBijection(next.max_array, next.min_array)
            /\ op' \in {"del_min", "del_max"} =>
                  /\ result' = Some(x)
                  /\ size(next) = k - 1
                  /\ k > 1 => OnlyCopies(next, x, k - 1)
                  /\ MirrorBijection(next.min_array, next.max_array)
                  /\ MirrorBijection(next.max_array, next.min_array)
                  /\ k = 1 => /\ del_min(next).result = None
                              /\ del_max(next).result = None

C12_BuildEqualsInsAll ==
    op # "new" =>
        /\ eq(this, twin)
        /\ BagOf(Values(min_array)) = BagOf(Values(twin.min_array))
        /\ BagOf(Values(max_array)) = BagOf(Values(twin.max_array))
        /\ size(this) = size(twin)
        /\ min(this) = min(twin)
        /\ max(this) = max(twin)
        /\ result = twin.result

\* Both queues have returned the same maximum while their arrays are laid
\* out differently, before and after the delete.
C12_Witness ==
    /\ op = "del_max"
    /\ result # None
    /\ result = twin.result
    /\ size(this) >= 3
    /\ min_array # twin.min_array
    /\ max_array # twin.max_array

\* C14: from a queue of n elements the successive del_max calls return n
\* values in non-increasing order (del_min: non-decreasing), together with
\* what is left they are the contents the loop started on, and the queue is
\* empty exactly when the n-th value has been returned, the next delete
\* returning None.
C14_DrainOrder ==
    ~Mixing =>
        /\ \A k \in 1 .. Len(drain.out) - 1 :
              IF drain.mode = "del_max"
              THEN drain.out[k] >= drain.out[k + 1]
              ELSE drain.out[k] <= drain.out[k + 1]
        /\ \A x \in Vals :
              BagOf(drain.out)[x] + BagOf(Values(min_array))[x]
                 = BagOf(Values(drain.start.min_array))[x]
        /\ Len(drain.out) + size(this) = size(drain.start)
        /\ Len(drain.out) + Len(max_array) = size(drain.start)
        /\ (Len(drain.out) = size(drain.start)) <=> is_empty(this)
        /\ drain.pc = "loop" => result = Some(drain.out[Len(drain.out)])
        /\ drain.pc = "done" =>
              /\ result = None
              /\ Len(drain.out) = size(drain.start)
              /\ min_array = <<>> /\ max_array = <<>>

\* The del_max loop has emptied a queue of four or more elements with
\* both values, reached by a delete, and has ended on None.
C14_Witness ==
    /\ drain.pc = "done"
    /\ drain.mode = "del_max"
    /\ size(drain.start) >= 4
    /\ \A x \in Vals : \E k \in DOMAIN drain.out : drain.out[k] = x
    /\ Values(drain.start.min_array) # Values(drain.start.max_array)

\* Within one loop the index moves strictly towards the root (bottom-up) or
\* strictly towards the leaves (top-down), inside the array.
C17_Step ==
    /\ (sift.pc = "bottom_up" /\ sift'.pc = "bottom_up") =>
          sift'.current < sift.current /\ sift'.current >= 0
    /\ (sift.pc = "top_down" /\ sift'.pc = "top_down") =>
          /\ sift'.current > sift.current
          /\ sift'.current < Len(IF sift.side = "min" THEN min_array' ELSE max_array')

\* C17: every ins, del_min, del_max and make_heap comes to its end, each
\* bottom-up loop strictly decreasing and each top-down loop strictly
\* increasing the current index until it is left.
C17_Termination == (~Quiet ~> Quiet) /\ [][C17_Step]_vars

\* A del_max has ended whose last loop, the bottom-up sift at the vacated
\* slot of min_array, made a swap.
C17_Witness ==
    /\ Quiet
    /\ op = "del_max"
    /\ sift.last = "bottom_up"
    /\ sift.side = "min"
    /\ sift.moves >= 1

\* The arrays between two operations of the stepwise run are those of the
\* operators: valid heaps that mirror each other.
SiftAgrees ==
    Quiet => C1_ShapeInvariant /\ C2_MirrorInvariant /\ C3_SizeEquality

\* Some node of v and an existing child of it at 2i+1 or 2i+2 satisfy cmp.
BadChild(v, cmp) ==
    \E i \in 0 .. Len(v) - 1 : \E c \in {2 * i + 1, 2 * i + 2} :
        c < Len(v) /\ Call(cmp, At(v, i), At(v, c))

\* C18: is_heap_aux(v, cmp) is true exactly when no node and existing child
\* of it satisfy cmp(node, child); it is true for the empty and the
\* one-element vector; with gt it accepts exactly the min-heaps, with lt
\* exactly the max-heaps, equal parent and child included.
C18_IsHeapAux ==
    /\ probe.verdict <=> ~BadChild(probe.v, probe.cmp)
    /\ Len(probe.v) <= 1 => probe.verdict
    /\ probe.cmp = "gt" => (probe.verdict <=> ValidMinHeap(probe.v))
    /\ probe.cmp = "lt" => (probe.verdict <=> ValidMaxHeap(probe.v))
    /\ (\A k \in DOMAIN probe.v : probe.v[k] = probe.v[1]) => probe.verdict
    /\ probe.both <=> ValidMinHeap(probe.v) /\ ValidMaxHeap(probe.w)

\* A vector rejected with gt for its right child alone: the root is not
\* greater than its left child but greater than its right child.
C18_Witness ==
    /\ Len(probe.v) >= 3
    /\ probe.cmp = "gt"
    /\ ~probe.verdict
    /\ ~(probe.v[1] > probe.v[2])
    /\ probe.v[1] > probe.v[3]
    /\ \A i \in 1 .. Len(probe.v) - 1 :
         2 * i + 1 < Len(probe.v) => ~(At(probe.v, i) > At(probe.v, 2 * i + 1))

\* uf.find(a) == uf.find(b) as a test writes it: find(a), then find(b) on
\* the structure that find(a) has left.
BySize_same(self, a, b) ==
    BySize_find(self, a).ret = BySize_find(BySize_find(self, a).self, b).ret

ByRank_same(self, a, b) ==
    ByRank_find(self, a).ret = ByRank_find(ByRank_find(self, a).self, b).ret

InRange(i) == i < Len(uf.linked)

\* C19: in both structures, after union(i, j) with i, j < n, find(i) ==
\* find(j), and for all elements a, b: find(a) == find(b) exactly when the
\* unions made so far have connected a and b.
C19_Connectivity ==
    /\ (uf.call.op = "union" /\ InRange(uf.call.i) /\ InRange(uf.call.j)) =>
          /\ BySize_same(uf.by_size, uf.call.i, uf.call.j)
          /\ ByRank_same(uf.by_rank, uf.call.i, uf.call.j)
    /\ \A a \in Indices : \A b \in Indices :
          (InRange(a) /\ InRange(b)) =>
             /\ BySize_same(uf.by_size, a, b) <=> At(uf.linked, a) = At(uf.linked, b)
             /\ ByRank_same(uf.by_rank, a, b) <=> At(uf.linked, a) = At(uf.linked, b)

\* A union has joined two sets into the one set of a structure of at least
\* four elements, where some element does not hang directly under its
\* representative.
C19_Witness ==
    /\ uf.call.op = "union"
    /\ uf.touched
    /\ Len(uf.linked) >= 4
    /\ \A k \in DOMAIN uf.linked : uf.linked[k] = 0
    /\ \E k \in 0 .. Len(uf.linked) - 1 :
         LET p == At(uf.by_size.parents, k) IN At(uf.by_size.parents, p) # p

\* What a caller can see of the two structures: size() and the result of
\* find for every index.
Seen(u) ==
    [size |-> <<BySize_size(u.by_size), ByRank_size(u.by_rank)>>,
     find |-> [i \in Indices |-> <<BySize_find(u.by_size, i).ret,
                                   ByRank_find(u.by_rank, i).ret>>]]

\* The parts of the contract that union with an out-of-range argument does
\* not enter: find returns None exactly for i >= size() and then leaves the
\* structure as it was; on a fresh new(n) find(i) == Some(i) for every
\* i < n; neither union nor find changes size().
C20_Lookup ==
    /\ uf'.call.op = "find" =>
          /\ uf'.ret[1] = None <=> uf'.call.i >= BySize_size(uf.by_size)
          /\ uf'.ret[2] = None <=> uf'.call.i >= ByRank_size(uf.by_rank)
          /\ uf'.ret[1] = None => uf'.by_size = uf.by_size
          /\ uf'.ret[2] = None => uf'.by_rank = uf.by_rank
    /\ uf'.call.op = "new" =>
          \A i \in Indices : i < uf'.call.i =>
             /\ BySize_find(uf'.by_size, i).ret = Some(i)
             /\ ByRank_find(uf'.by_rank, i).ret = Some(i)
    /\ uf'.call.op \in {"union", "find"} =>
          /\ BySize_size(uf'.by_size) = BySize_size(uf.by_size)
          /\ ByRank_size(uf'.by_rank) = ByRank_size(uf.by_rank)

OutOfRangeUnion ==
    /\ uf'.call.op = "union"
    /\ uf'.call.i >= BySize_size(uf.by_size) \/ uf'.call.j >= BySize_size(uf.by_size)

\* C20 as stated: the lookup contract, and union with an out-of-range
\* argument changes nothing of either structure.
C20_OriginalStep ==
    /\ C20_Lookup
    /\ OutOfRangeUnion => uf'.by_size = uf.by_size /\ uf'.by_rank = uf.by_rank

C20_Original == [][C20_OriginalStep]_vars

\* C20 amended: the lookup contract, and union with an out-of-range
\* argument changes neither sizes nor ranks nor size() nor the result of
\* any find; all it may change is the parent of its in-range argument,
\* which the find it calls moves towards the representative.
C20_Step ==
    /\ C20_Lookup
    /\ OutOfRangeUnion =>
          /\ uf'.by_size.sizes = uf.by_size.sizes
          /\ uf'.by_rank.ranks = uf.by_rank.ranks
          /\ Seen(uf') = Seen(uf)
          /\ \A k \in 0 .. BySize_size(uf.by_size) - 1 :
                k \notin {uf'.call.i, uf'.call.j} =>
                   /\ At(uf'.by_size.parents, k) = At(uf.by_size.parents, k)
                   /\ At(uf'.by_rank.parents, k) = At(uf.by_rank.parents, k)

C20_LookupContract == [][C20_Step]_vars

\* A union with one argument in range and the other out of range has
\* changed a parents vector.
C20_Witness ==
    /\ uf.call.op = "union"
    /\ (uf.call.i >= BySize_size(uf.by_size)) # (uf.call.j >= BySize_size(uf.by_size))
    /\ uf.touched

\* The representative that the parent links lead to from k.
RECURSIVE RootOf(_, _)
RootOf(parents, k) ==
    IF At(parents, k) = k THEN k ELSE RootOf(parents, At(parents, k))

RECURSIVE SumOf(_)
SumOf(v) == IF v = <<>> THEN 0 ELSE Head(v) + SumOf(Tail(v))

\* C21: in the by-size structure the entries of sizes sum to n = size();
\* every root holds the number of elements of its set and every non-root 0.
C21_SizesBookkeeping ==
    LET parents == uf.by_size.parents
        sizes == uf.by_size.sizes
        n == BySize_size(uf.by_size)
    IN  /\ Len(sizes) = n
        /\ SumOf(sizes) = n
        /\ \A r \in 0 .. n - 1 :
              IF At(parents, r) = r
              THEN At(sizes, r) = Cardinality({k \in 0 .. n - 1 : RootOf(parents, k) = r})
              ELSE At(sizes, r) = 0

\* A union has merged two sets of two elements each: one root of size 4,
\* the former roots at 0.
C21_Witness ==
    /\ uf.call.op = "union"
    /\ uf.touched
    /\ \E r \in 0 .. BySize_size(uf.by_size) - 1 :
          /\ At(uf.by_size.sizes, r) >= 4
          /\ Cardinality({k \in 0 .. BySize_size(uf.by_size) - 1 :
                            k # r /\ At(uf.by_size.parents, k) = r}) >= 2

\* C22: the array of a Heap is a valid min-heap in every state reached from
\* new, make_heap_bottom_up or make_heap_top_down by insert and del_min, and
\* del_min returns what min() reported just before, no remaining element
\* being smaller.
C22_SingleHeapInvariant ==
    /\ ValidMinHeap(pq.array)
    /\ pq.op = "del_min" =>
          /\ pq.result = pq.seen
          /\ pq.result # None =>
                \A k \in DOMAIN pq.array : ~(pq.array[k] < pq.result[1])

\* A del_min has returned the least of a heap that still holds greater and
\* equal elements in at least two levels.
C22_Witness ==
    /\ pq.op = "del_min"
    /\ pq.result # None
    /\ Len(pq.array) >= 4
    /\ \E k \in DOMAIN pq.array : pq.array[k] > pq.result[1]
    /\ \E k \in DOMAIN pq.array : pq.array[k] = pq.result[1]

\* v is in non-decreasing order over every adjacent pair.
Ascending(v) == \A k \in 1 .. Len(v) - 1 : v[k] <= v[k + 1]

CountIn(v, x) == Cardinality({k \in DOMAIN v : v[k] = x})

Permutation(a, b) == Len(a) = Len(b) /\ \A x \in Vals : CountIn(a, x) = CountIn(b, x)

\* C23: sort leaves, and sort2 returns, a permutation of the input in
\* non-decreasing order over all adjacent pairs, the last pair included.
C23_Heapsort ==
    /\ Permutation(srt.sort, srt.v) /\ Ascending(srt.sort)
    /\ Permutation(srt.sort2, srt.v) /\ Ascending(srt.sort2)

\* An input of at least four elements whose last pair is out of order has
\* been sorted.
C23_Witness ==
    /\ Len(srt.v) >= 4
    /\ srt.v[Len(srt.v) - 1] > srt.v[Len(srt.v)]
    /\ srt.sort # srt.v
    /\ srt.sort = srt.sort2

\* The amounts up to top that exactly k coins of the set, each usable any
\* number of times, sum to.
RECURSIVE SumsOf(_, _, _)
SumsOf(coins, k, top) ==
    IF k = 0 THEN {0}
    ELSE {s + c : s \in SumsOf(coins, k - 1, top), c \in coins} \cap (0 .. top)

\* The numbers of coins that can sum to amount; a sum of positive coins
\* takes at most amount of them, and coins of 0 never lower the number.
Counts(coins, amount) == {k \in 0 .. amount : amount \in SumsOf(coins, k, amount)}

\* C24: make_change_count returns Some(k) for the least number k of coins of
\* the set that sum to amount, Some(0) for amount 0, and None exactly when
\* no combination of the coins sums to amount.
C24_MakeChangeCount ==
    LET ks == Counts(coin.coins, coin.amount) IN
    /\ coin.amount = 0 => coin.ret = Some(0)
    /\ coin.ret = None <=> ks = {}
    /\ coin.ret # None =>
          /\ coin.ret[1] \in ks
          /\ \A k \in ks : coin.ret[1] <= k

\* The answer takes two coins and does not use the largest coin that fits:
\* taking that coin first leaves an amount that is no coin.
C24_Witness ==
    /\ coin.ret = Some(2)
    /\ \E c \in coin.coins : c < coin.amount /\ c > 0
          /\ (coin.amount - c) \notin coin.coins
          /\ \A d \in coin.coins : d <= c \/ d > coin.amount

\* C25: after t.ins(k, v) the call t.del(&k) returns Some(v).
C25_DelReturnsValue ==
    bst.op = "ins" => Tree_del(bst.t, bst.key).ret = Some(bst.value)

\* C26: after t.del(&k) the call t.find(&k) returns None, and after
\* t.ins(k, v) the call t.find(&k) returns Some(&v).
C26_DelRemovesKey ==
    /\ bst.op = "del" => Tree_find(bst.t, bst.key) = None
    /\ bst.op = "ins" => Tree_find(bst.t, bst.key) = Some(bst.value)

\* The array of one side of the queue.
ArrayOf(side) == IF side = "min" THEN min_array ELSE max_array

\* The array of the other side.
OtherOf(side) == IF side = "min" THEN max_array ELSE min_array

\* In the array a of the given side the child at c comes strictly before
\* its parent at p in that side's order.
Violates(a, side, p, c) ==
    Call(IF side = "min" THEN "lt" ELSE "gt", At(a, c)[1], At(a, p)[1])

\* The last call waiting in sift.todo.
LastCall == sift.todo[Len(sift.todo)]

\* C27: when del_min or del_max has removed a slot ri of the other array
\* that was not its last slot, then on return the element put there, at ri
\* or where the sift took it, is in heap order with its parent and with each
\* of its existing children.
C27_FixUpAtMirrorSlot ==
    (Quiet /\ Deleted /\ sift.last = "bottom_up") =>
        LET a == ArrayOf(sift.side)
            k == sift.current
        IN  /\ k < Len(a)
            /\ k # 0 => ~Violates(a, sift.side, (k - 1) \div 2, k)
            /\ \A c \in {2 * k + 1, 2 * k + 2} :
                  c < Len(a) => ~Violates(a, sift.side, k, c)

\* A del_min has returned whose relocated tail element of max_array was
\* out of order with its parent at ri and has been sifted up.
C27_Witness ==
    /\ Quiet
    /\ op = "del_min"
    /\ sift.last = "bottom_up"
    /\ sift.side = "max"
    /\ sift.moves >= 1
    /\ sift.current # 0

\* A delete has removed slot ri # last of the other array and the sift at
\* ri has not started.
PendingUp ==
    /\ Deleted
    /\ sift.todo # <<>>
    /\ LastCall.kind = "bottom_up"

\* C28: in del_aux with ri != last, after the tail element of the other
\* array is put at ri and before any sift of that array, the element is in
\* order with every existing child of ri and only the link of ri to its
\* parent can be out of order; the one bottom-up sift from ri leaves the
\* other array a valid heap.
C28_OneDirectionSuffices ==
    /\ PendingUp =>
          LET a == ArrayOf(LastCall.side)
              ri == LastCall.at
          IN  /\ \A c \in {2 * ri + 1, 2 * ri + 2} :
                    c < Len(a) => ~Violates(a, LastCall.side, ri, c)
              /\ \A k \in 1 .. Len(a) - 1 :
                    k # ri => ~Violates(a, LastCall.side, (k - 1) \div 2, k)
    /\ (Quiet /\ Deleted) => C1_ShapeInvariant

\* The sift at ri is waiting, ri has a child, and the element put at ri is
\* not equal to that child.
C28_Witness ==
    /\ PendingUp
    /\ LET a == ArrayOf(LastCall.side)
           ri == LastCall.at
       IN  /\ 2 * ri + 1 < Len(a)
           /\ At(a, ri)[1] # At(a, 2 * ri + 1)[1]

\* One iteration of a sift in the array of sift.side leaves the values and
\* the length of the other array as they are and changes there at most the
\* slots that mirror the two slots swapped; and when the sift-up of
\* max_array starts in ins, the new item is at the index it was pushed to,
\* the last one, and its mirror field leads to its slot of min_array.
C29_Step ==
    /\ sift.pc # "idle" =>
          LET l == ArrayOf(sift.side)
              r == OtherOf(sift.side)
              r2 == IF sift.side = "min" THEN max_array' ELSE min_array'
          IN  /\ Len(r2) = Len(r)
              /\ Values(r2) = Values(r)
              /\ \A k \in 0 .. Len(r) - 1 :
                    At(r2, k) # At(r, k) =>
                        k \in {At(l, sift.current)[2], At(l, sift'.current)[2]}
    /\ (op = "ins" /\ sift.pc = "idle" /\ sift'.pc = "bottom_up" /\ sift'.side = "max") =>
          /\ sift'.current = Len(max_array) - 1
          /\ At(max_array, sift'.current)[1] = arg[1]
          /\ At(min_array, At(max_array, sift'.current)[2]) = <<arg[1], sift'.current>>

\* C29: a swap or sift in one array changes in the other array only the
\* mirror fields of the counterparts of the two swapped slots, not its
\* values nor its length; so in ins the new element is still at index i of
\* max_array when the sift-up of max_array starts.
C29_SwapFrame == [][C29_Step]_vars

\* The sift-up of max_array in ins is starting after the sift-up of
\* min_array has moved the new item away from index i.
C29_Witness ==
    /\ op = "ins"
    /\ sift.pc = "bottom_up"
    /\ sift.side = "max"
    /\ sift.moves = 0
    /\ sift.current = Len(max_array) - 1
    /\ At(max_array, sift.current)[2] # sift.current

\* The indices i and j of l and the mirror fields found there are inside l
\* and r.
SwapInBounds(l, r, i, j) ==
    /\ i < Len(l)
    /\ j < Len(l)
    /\ At(l, i)[2] < Len(r)
    /\ At(l, j)[2] < Len(r)

\* Every sift that waits starts inside its array.
PendingInBounds ==
    \A n \in DOMAIN sift.todo : sift.todo[n].at < Len(ArrayOf(sift.todo[n].side))

\* The next iteration of the running loop reads inside the arrays.
StepInBounds ==
    LET l == ArrayOf(sift.side)
        r == OtherOf(sift.side)
        k == sift.current
        flt == IF sift.side = "min" THEN "lt" ELSE "gt"
        fgt == IF sift.side = "min" THEN "gt" ELSE "lt"
        parent == (k - 1) \div 2
        left == 2 * k + 1
        right == 2 * k + 2
        child == IF Len(l) > right /\ ~Call(flt, At(l, left)[1], At(l, right)[1])
                 THEN right ELSE left
    IN  /\ (sift.pc = "bottom_up" /\ k # 0) =>
              /\ k < Len(l)
              /\ (Call(flt, At(l, k)[1], At(l, parent)[1]) =>
                     SwapInBounds(l, r, k, parent))
        /\ (sift.pc = "top_down" /\ Len(l) > left) =>
              (Call(fgt, At(l, k)[1], At(l, child)[1]) =>
                  SwapInBounds(l, r, k, child))

\* C30: no operation of the queue reads or writes an array outside its
\* bounds: the removal in del_aux (l[r[last].1] after the pop of l, the
\* swap of ri and last in r), every sift that waits (slot ri after the pop
\* of r) and every iteration of a running sift use valid indices.
C30_IndexSafety ==
    /\ sift.inb
    /\ PendingInBounds
    /\ StepInBounds

\* The sift-up of min_array in del_max is starting at ri, the last slot
\* left after the pop.
C30_Witness ==
    /\ op = "del_max"
    /\ sift.pc = "bottom_up"
    /\ sift.side = "min"
    /\ sift.moves = 0
    /\ sift.current # 0
    /\ sift.current = Len(min_array) - 1

\* C31: a == b holds exactly when the two queues hold the same multiset of
\* values, whatever the layout of their arrays and the calls that built
\* them; the max_array of each holds the same multiset as its min_array.
C31_EqualityIsMultisetEquality ==
    /\ eq(this, twin) <=>
          BagOf(Values(min_array)) = BagOf(Values(twin.min_array))
    /\ eq(this, twin) = eq(twin, this)
    /\ BagOf(Values(max_array)) = BagOf(Values(min_array))
    /\ BagOf(Values(twin.max_array)) = BagOf(Values(twin.min_array))

\* Two equal queues, one from make_heap and one from ins_all and a later
\* ins, whose min_array hold the values in different orders.
C31_Witness ==
    /\ op = "ins_twin"
    /\ eq(this, twin)
    /\ Len(min_array) >= 3
    /\ Values(min_array) # Values(twin.min_array)

====
